---- MODULE Spec2Model ----
(***************************************************************************)
(* Call lifecycle orchestration and webhook reconciliation of the payment  *)
(* reminder caller (services/call_orchestrator.py and the services it      *)
(* drives).  The persistence store is three tables kept as sequences (a    *)
(* row's primary key is its position), the spreadsheet is its tracking     *)
(* columns, and the provider and the classifier are the environment: the   *)
(* provider answers a placement and delivers webhook events at any time,   *)
(* the classifier returns the record a report of Reports carries.          *)
(*                                                                         *)
(* process_call_webhook is a synchronous function: one delivery is one     *)
(* step.  make_single_call suspends at the provider request, so a call is  *)
(* placed in one step and its CallLog is committed in a later one.         *)
(***************************************************************************)
EXTENDS Integers, Sequences, FiniteSets, TLC

\* ---------------------------------------------------------------- bounds
MaxCalls == 2      \* call ids the provider hands out
MaxWebhooks == 2   \* webhook deliveries
MaxInflight == 1   \* placements answered and not yet committed
MaxRows == 2       \* rows of one fetched sheet
MaxTime == 3       \* minutes the clock runs
MaxRuns == 2       \* batch runs triggered
MaxSheets == 2     \* sheet ids given to process_multiple_sheets
MaxSessions == 2   \* sync_to_database passes under way at a time

\* ------------------------------------------------------------ vocabulary
None == "None"     \* Python None in a string or date position
NoId == 0          \* a missing (falsy) call id
NoInvoice == 0     \* a payment's db_invoice_id of None

Contacts == {"+919876543210"}
InvoiceIds == {"INV-1", "INV-2"}
SheetIds == {"sheetA", "sheetB"}
google_sheet_id == "sheetA"          \* settings.google_sheet_id, the default

CallIds == 1..MaxCalls
PENDING == "pending"
PAID == "paid"
IN_PROGRESS == "in_progress"
COMPLETED == "completed"

\* provider status strings of a status-update; None is a missing status
ProviderStatuses ==
  {"queued", "ringing", "in-progress", "forwarding", "ended", "bogus", None}

\* message types; None is an absent type
MessageTypes ==
  {"status-update", "end-of-call-report", "transcript", "hang", None}

\* what the provider answers to POST /call/phone
PlacementFailures ==
  {"non201", "429", "timeout", "401", "exception", "201 without id"}

\* how the write-back to the spreadsheet goes
SheetResults ==
  {"ok", "open fails", "not found", "write fails before O",
   "write fails after O"}

\* ------------------------------------------------- classifier records
\* A parsed outcome is a dict: a function on the keys it holds.  A null
\* value is None; a missing key is not in the DOMAIN.
Get(d, k, default) == IF k \in DOMAIN d THEN d[k] ELSE default

\* truthiness of a string-or-None value
Truthy(v) == v \notin {None, ""}

FallbackOutcome ==
  [payment_status |-> "other", payment_promised |-> FALSE,
   payment_promise_date |-> None, needs_invoice_resend |-> FALSE,
   customer_disputed |-> FALSE, dispute_reason |-> None,
   next_follow_up_date |-> None, language_detected |-> "unknown",
   customer_sentiment |-> "neutral", notes |-> "Error parsing",
   call_outcome |-> "unsuccessful"]

OutcomePaid ==
  [payment_status |-> "paid", payment_promised |-> FALSE,
   payment_promise_date |-> None, needs_invoice_resend |-> FALSE,
   customer_disputed |-> FALSE, dispute_reason |-> None,
   next_follow_up_date |-> None, language_detected |-> "hindi",
   customer_sentiment |-> "positive", notes |-> "already paid",
   call_outcome |-> "successful"]

OutcomeWillPay ==
  [payment_status |-> "will_pay", payment_promised |-> TRUE,
   payment_promise_date |-> "2025-05-01", needs_invoice_resend |-> TRUE,
   customer_disputed |-> FALSE, dispute_reason |-> None,
   next_follow_up_date |-> "2025-05-02", language_detected |-> "english",
   customer_sentiment |-> "neutral", notes |-> "will pay",
   call_outcome |-> "successful"]

\* the prompt allows null for what is unclear
OutcomePaidNullLanguage ==
  [OutcomePaid EXCEPT !.language_detected = None]

\* a record with keys missing: no payment_status, no sentiment
OutcomeSparse ==
  [customer_disputed |-> TRUE, language_detected |-> "mixed",
   next_follow_up_date |-> "2025-05-02"]

Outcomes ==
  {FallbackOutcome, OutcomePaid, OutcomeWillPay, OutcomePaidNullLanguage,
   OutcomeSparse}

\* ------------------------------------------------ end-of-call reports
\* message.transcript, message.summary, call.startedAt, call.endedAt,
\* call.cost, call.recordingUrl; 0 is a missing timestamp
FullBody ==
  [transcript |-> "namaste", summary |-> "s", startedAt |-> 5, endedAt |-> 9,
   cost |-> 2, recordingUrl |-> "http://rec"]

EmptyBody ==
  [transcript |-> "", summary |-> "", startedAt |-> 0, endedAt |-> 9,
   cost |-> 0, recordingUrl |-> None]

\* the reports delivered: what the provider sent and what the classifier
\* made of it
Reports ==
  {[body |-> FullBody, outcome |-> OutcomePaid],
   [body |-> FullBody, outcome |-> OutcomePaidNullLanguage],
   [body |-> EmptyBody, outcome |-> FallbackOutcome]}

\* ------------------------------------------------------------- state
VARIABLES
  clients,        \* Client rows: [contact_number, google_sheet_id]
  invoices,       \* Invoice rows: [client_id, invoice_id, payment_status]
  call_logs,      \* CallLog rows
  sheet,          \* column O (total calls made) of the row of an invoice
  next_call_id,   \* the next call id the provider hands out
  inflight,       \* make_single_call between placement and commit
  batch,          \* rows process_pending_payments still has to call
  delivered,      \* webhook deliveries so far
  raised,         \* whether the last operation let an exception escape
  paid_reports,   \* call ids whose CallLog took a 'paid' report
  solo,           \* per call id: its CallLog as its own operations make it
  now,            \* the local time, in minutes
  run,            \* the batch run triggered last
  ppp,            \* the process_pending_payments invoked last
  placed,         \* the times at which batch calls were placed
  syncs,          \* per session: a sync_to_database pass under way
  reported        \* call ids an end-of-call-report was delivered for

\* the state of the batch runs, the clock and the sync sessions
tvars == <<now, run, ppp, placed, syncs, reported>>

vars ==
  <<clients, invoices, call_logs, sheet, next_call_id, inflight, batch,
    delivered, raised, paid_reports, solo, now, run, ppp, placed, syncs,
    reported>>

\* ------------------------------------------------------ persistence
\* a NULL in an integer or float column
NullNumber == -1

\* CallLog(invoice_id=..., vapi_call_id=..., call_status=IN_PROGRESS) with
\* the column defaults of the table
NewCallLog(db_invoice_id, call_id) ==
  [invoice_id |-> db_invoice_id, vapi_call_id |-> call_id,
   call_status |-> IN_PROGRESS, call_duration |-> NullNumber,
   transcript |-> None, summary |-> <<>>, recording_url |-> None,
   cost |-> NullNumber, payment_promised |-> FALSE,
   payment_promise_date |-> None, needs_invoice_resend |-> FALSE,
   customer_disputed |-> FALSE, dispute_reason |-> None,
   next_follow_up_date |-> None, language_detected |-> None,
   customer_sentiment |-> None, call_outcome |-> None]

\* fault: the filter on vapi_call_id is lost
FindCallLogAny(logs, call_id) ==
  IF Len(logs) > 0 THEN 1 ELSE 0

\* db.query(CallLog).filter(CallLog.vapi_call_id == call_id).first():
\* the primary key of the first matching row, 0 when there is none
FindCallLog(logs, call_id) ==
  LET hits == {k \in 1..Len(logs) : logs[k].vapi_call_id = call_id}
  IN IF hits = {} THEN 0 ELSE CHOOSE k \in hits : \A j \in hits : k <= j

\* db.query(Client).filter(Client.contact_number == ...).first()
FindClient(cs, contact) ==
  LET hits == {k \in 1..Len(cs) : cs[k].contact_number = contact}
  IN IF hits = {} THEN 0 ELSE CHOOSE k \in hits : \A j \in hits : k <= j

\* db.query(Invoice).filter(Invoice.invoice_id == ...).first()
FindInvoice(is, ext_id) ==
  LET hits == {k \in 1..Len(is) : is[k].invoice_id = ext_id}
  IN IF hits = {} THEN 0 ELSE CHOOSE k \in hits : \A j \in hits : k <= j

\* ------------------------------------------------------ status-update
\* fault: a status outside the table is stored as it came
status_mapping_ended_only(status) ==
  IF status = "ended" THEN COMPLETED ELSE status

\* status_mapping.get(status, CallStatus.IN_PROGRESS)
status_mapping(status) ==
  CASE status \in {"queued", "ringing", "in-progress", "forwarding"}
         -> IN_PROGRESS
    [] status = "ended" -> COMPLETED
    [] OTHER -> IN_PROGRESS

\* fault: the update runs without the filter on vapi_call_id
handle_status_update_every_row(logs, call_id, status) ==
  IF call_id = NoId
  THEN logs
  ELSE [k \in 1..Len(logs) |->
          [logs[k] EXCEPT !.call_status = status_mapping(status)]]

\* _handle_status_update on the CallLog table: the table afterwards
handle_status_update(logs, call_id, status) ==
  IF call_id = NoId
  THEN logs
  ELSE LET k == FindCallLog(logs, call_id)
       IN IF k = 0
          THEN logs
          ELSE [logs EXCEPT ![k].call_status = status_mapping(status)]

\* ------------------------------------------------- end-of-call-report
\* str.title() of the strings the classifier uses
Title(s) ==
  CASE s = "hindi" -> "Hindi" [] s = "english" -> "English"
    [] s = "marathi" -> "Marathi" [] s = "mixed" -> "Mixed"
    [] s = "unknown" -> "Unknown" [] s = "positive" -> "Positive"
    [] s = "neutral" -> "Neutral" [] s = "negative" -> "Negative"
    [] s = "angry" -> "Angry" [] OTHER -> s

\* date.strftime('%d %B %Y')
StrfDayMonthYear(d) ==
  CASE d = "2025-05-01" -> "01 May 2025"
    [] d = "2025-05-02" -> "02 May 2025"
    [] OTHER -> d

\* generate_summary: the parts that " | ".join glues together, and
\* whether it raised (None has no .title())
generate_summary(o) ==
  LET status == Get(o, "payment_status", "unknown")
      lang == Get(o, "language_detected", "unknown")
      sentiment == Get(o, "customer_sentiment", "neutral")
      p_status ==
        CASE status = "paid"
               -> << <<"status", "Customer confirmed payment already made">> >>
          [] status = "will_pay"
               -> << <<"status", "Customer will make payment">> >>
          [] status = "disputed"
               -> << <<"status", "Customer disputed the invoice">> >>
          [] OTHER -> <<>>
      p_promise ==
        IF Get(o, "payment_promised", FALSE)
           /\ Truthy(Get(o, "payment_promise_date", None))
        THEN << <<"Promised to pay by",
                  StrfDayMonthYear(o["payment_promise_date"])>> >>
        ELSE <<>>
      p_resend ==
        IF Get(o, "needs_invoice_resend", FALSE)
        THEN << <<"resend", "Requested invoice to be resent">> >>
        ELSE <<>>
      p_dispute ==
        IF Get(o, "customer_disputed", FALSE)
        THEN << <<"Dispute reason",
                  Get(o, "dispute_reason", "No reason provided")>> >>
        ELSE <<>>
      p_notes ==
        IF Truthy(Get(o, "notes", None))
        THEN << <<"notes", o["notes"]>> >>
        ELSE <<>>
  IN IF lang = None \/ sentiment = None
     THEN [raised |-> TRUE, value |-> <<>>]
     ELSE [raised |-> FALSE,
           value |-> p_status \o p_promise \o p_resend \o p_dispute
                     \o << <<"Language", Title(lang)>>,
                           <<"Sentiment", Title(sentiment)>> >>
                     \o p_notes]

\* duration = ended_at - started_at if ended_at and started_at else 0
Duration(body) ==
  IF body.endedAt # 0 /\ body.startedAt # 0
  THEN body.endedAt - body.startedAt
  ELSE 0

\* transcript, with the placeholder for a missing one
Transcript(body) ==
  IF body.transcript = "" THEN "No transcript available" ELSE body.transcript

\* fault: the duration is added to the stored one
UpdatedCallLogAddDuration(row, body, o, response_summary) ==
  [row EXCEPT !.call_status = COMPLETED,
              !.call_duration = @ + Duration(body) + 1,
              !.transcript = Transcript(body),
              !.summary = response_summary]

\* the assignments of _handle_end_of_call to the CallLog it found
UpdatedCallLog(row, body, o, response_summary) ==
  [row EXCEPT
     !.call_status = COMPLETED,
     !.call_duration = Duration(body),
     !.transcript = Transcript(body),
     !.summary = response_summary,
     !.recording_url = body.recordingUrl,
     !.cost = body.cost,
     !.payment_promised = Get(o, "payment_promised", FALSE),
     !.payment_promise_date = Get(o, "payment_promise_date", None),
     !.needs_invoice_resend = Get(o, "needs_invoice_resend", FALSE),
     !.customer_disputed = Get(o, "customer_disputed", FALSE),
     !.dispute_reason = Get(o, "dispute_reason", None),
     !.next_follow_up_date = Get(o, "next_follow_up_date", None),
     !.language_detected = Get(o, "language_detected", None),
     !.customer_sentiment = Get(o, "customer_sentiment", None),
     !.call_outcome = Get(o, "call_outcome", None)]

\* fault: every report marks the invoice paid
MarksPaidAlways(o) ==
  TRUE

\* if parsed_outcome.get('payment_status') == 'paid'
MarksPaid(o) ==
  Get(o, "payment_status", None) = "paid"

\* --------------------------------------------------------- spreadsheet
\* get_sheet: the given sheet, the default one for a falsy id
get_sheet(sheet_id) ==
  IF sheet_id = None THEN google_sheet_id ELSE sheet_id

\* column O after the write-back: the count read from the row plus one,
\* once the cell write of column O went through
written_sheet(sh, ext_id, client_sheet_id, result) ==
  LET s == get_sheet(client_sheet_id)
  IN IF result \in {"ok", "write fails after O"}
     THEN [sh EXCEPT ![s][ext_id] = @ + 1]
     ELSE sh

\* fault: a failure of the write-back is not caught
update_google_sheet_from_call_propagating(sh, ext_id, sheet_id, result) ==
  [raised |-> result # "ok",
   sheet |-> written_sheet(sh, ext_id, sheet_id, result)]

\* _update_google_sheet_from_call and update_payment_status: the row of
\* the invoice gets its tracking columns written one cell after the other;
\* every failure (the sheet does not open, the row is not found, a cell
\* write errors) is caught and logged inside, so nothing is raised
update_google_sheet_from_call(sh, ext_id, client_sheet_id, result) ==
  [raised |-> FALSE,
   sheet |-> written_sheet(sh, ext_id, client_sheet_id, result)]

\* _handle_end_of_call: the tables and the sheet afterwards.  An exception
\* inside the session rolls the session back and is caught by the handler;
\* what was written to the sheet stays written.
handle_end_of_call(logs, invs, cls, sh, m) ==
  LET unchanged == [call_logs |-> logs, invoices |-> invs, sheet |-> sh]
      response_summary == generate_summary(m.outcome)
      k == FindCallLog(logs, m.call_id)
  IN IF m.call_id = NoId THEN unchanged
     ELSE IF response_summary.raised THEN unchanged
     ELSE IF k = 0 THEN unchanged
     ELSE LET inv == logs[k].invoice_id
              client == cls[invs[inv].client_id]
              written == update_google_sheet_from_call(
                           sh, invs[inv].invoice_id, client.google_sheet_id,
                           m.sheet_result)
          IN IF written.raised
             THEN [call_logs |-> logs, invoices |-> invs,
                   sheet |-> written.sheet]
             ELSE [call_logs |->
                     [logs EXCEPT ![k] = UpdatedCallLog(@, m.body, m.outcome,
                                                   response_summary.value)],
                   invoices |->
                     IF MarksPaid(m.outcome)
                     THEN [invs EXCEPT ![inv].payment_status = PAID]
                     ELSE invs,
                   sheet |-> written.sheet]

\* process_call_webhook: dispatch on message.type; every exception is
\* caught, so none escapes
process_call_webhook(logs, invs, cls, sh, m) ==
  CASE m.type = "status-update"
         -> [call_logs |-> handle_status_update(logs, m.call_id, m.status),
             invoices |-> invs, sheet |-> sh, raised |-> FALSE]
    [] m.type = "end-of-call-report"
         -> LET r == handle_end_of_call(logs, invs, cls, sh, m)
            IN [call_logs |-> r.call_logs, invoices |-> r.invoices,
                sheet |-> r.sheet, raised |-> FALSE]
    [] OTHER
         -> [call_logs |-> logs, invoices |-> invs, sheet |-> sh,
             raised |-> FALSE]

\* the webhook payloads the provider may deliver
StatusUpdates ==
  [type : {"status-update"}, call_id : 0..MaxCalls, status : ProviderStatuses,
   body : {EmptyBody}, outcome : {FallbackOutcome}, sheet_result : {"ok"}]

EndOfCallReports ==
  {[type |-> "end-of-call-report", call_id |-> c, status |-> None,
    body |-> r.body, outcome |-> r.outcome, sheet_result |-> x] :
     c \in 0..MaxCalls, r \in Reports, x \in SheetResults}

OtherMessages ==
  [type : MessageTypes \ {"status-update", "end-of-call-report"},
   call_id : 0..MaxCalls, status : {None},
   body : {EmptyBody}, outcome : {FallbackOutcome}, sheet_result : {"ok"}]

Messages == StatusUpdates \cup EndOfCallReports \cup OtherMessages

\* --------------------------------------------------- sync_to_database
\* rows get_pending_payments returns: every row of one sheet carries the
\* contact number of the sheet; due_date is None when neither date of the
\* row parses
PaymentRows ==
  [contact_number : Contacts, invoice_id : InvoiceIds,
   due_date : {"2025-04-25", None}]

RECURSIVE SeqsUpTo(_, _)
SeqsUpTo(S, n) ==
  IF n = 0 THEN {<<>>}
  ELSE LET shorter == SeqsUpTo(S, n - 1)
       IN shorter \cup {Append(q, x) : q \in {r \in shorter : Len(r) = n - 1},
                                        x \in S}

PaymentLists == SeqsUpTo(PaymentRows, MaxRows)

\* one sheet, one contact number
FetchedLists ==
  {ps \in PaymentLists :
     \A i, j \in 1..Len(ps) : ps[i].contact_number = ps[j].contact_number}

\* ------------------------------------------------ get_pending_payments
\* the cells of a data row as the sheet holds them: pending amount,
\* invoice date, due date.  The first row parses, the second has no
\* amount that parses, the third no date that parses.
RawCells ==
  {<<"Rs 55,696.00", "25-Apr-25", "">>,
   <<"n/a", "25-Apr-25", "25/04/2025">>,
   <<"55696", "n/a", "n/a">>}

RawRows ==
  {[invoice_id |-> i, pending |-> c[1], invoice_date |-> c[2],
    due_date |-> c[3]] : i \in InvoiceIds, c \in RawCells}

RawSheets == SeqsUpTo(RawRows, MaxRows)

\* what the Sheets API gives for a sheet: its rows, or an error
Fetches ==
  {[opens |-> TRUE, rows |-> rows] : rows \in RawSheets}
    \cup {[opens |-> FALSE, rows |-> <<>>]}

\* _parse_amount: digits and the decimal point are kept; 0.0 when nothing
\* is left
parse_amount(amount) ==
  CASE amount \in {"Rs 55,696.00", "55696"} -> 55696
    [] OTHER -> 0

\* _parse_date: the formats tried in turn, None when none fits
parse_date(date_str) ==
  CASE date_str \in {"25-Apr-25", "25/04/2025", "2025-04-25"} -> "2025-04-25"
    [] OTHER -> None

\* the loop body of get_pending_payments for one data row: the payment of
\* the row, or nothing for a row without a pending amount
payment_of_row(row, contact) ==
  LET due_date == parse_date(row.due_date)
      invoice_date == parse_date(row.invoice_date)
  IN IF parse_amount(row.pending) <= 0
     THEN <<>>
     ELSE << [contact_number |-> contact, invoice_id |-> row.invoice_id,
              due_date |-> IF due_date # None THEN due_date
                           ELSE invoice_date] >>

RECURSIVE payments_of_rows(_, _)
payments_of_rows(rows, contact) ==
  IF rows = <<>> THEN <<>>
  ELSE payment_of_row(Head(rows), contact)
         \o payments_of_rows(Tail(rows), contact)

\* get_pending_payments: the payments of the rows; [] when anything raises
get_pending_payments(fetch) ==
  IF fetch.opens
  THEN payments_of_rows(fetch.rows, CHOOSE c \in Contacts : TRUE)
  ELSE <<>>

\* fault: a client the sync finds stored keeps the sheet it has
resynced_sheet_id_kept(old, sheet_id) ==
  IF sheet_id # None /\ old # sheet_id THEN old ELSE old

\* fault: a client already on the given sheet falls back to the default
resynced_sheet_id_or_default(old, sheet_id) ==
  IF sheet_id # None /\ old # sheet_id THEN sheet_id ELSE google_sheet_id

\* the google_sheet_id of a client the sync finds already stored:
\* if sheet_id and client.google_sheet_id != sheet_id
resynced_sheet_id(old, sheet_id) ==
  IF sheet_id # None /\ old # sheet_id THEN sheet_id ELSE old

\* the loop body of sync_to_database, row by row inside one session;
\* done holds the rows with db_invoice_id filled in.  An Invoice without
\* a due date violates NOT NULL at the flush, which raises.
RECURSIVE sync_rows(_, _, _, _, _)
sync_rows(cs, is, payments, sheet_id, done) ==
  IF payments = <<>>
  THEN [raised |-> FALSE, clients |-> cs, invoices |-> is, payments |-> done]
  ELSE LET p == Head(payments)
           k == FindClient(cs, p.contact_number)
           cs1 == IF k = 0
                  THEN Append(cs, [contact_number |-> p.contact_number,
                                   google_sheet_id |-> get_sheet(sheet_id)])
                  ELSE [cs EXCEPT ![k].google_sheet_id =
                          resynced_sheet_id(@, sheet_id)]
           client_id == IF k = 0 THEN Len(cs1) ELSE k
           j == FindInvoice(is, p.invoice_id)
           is1 == IF j = 0
                  THEN Append(is, [client_id |-> client_id,
                                   invoice_id |-> p.invoice_id,
                                   payment_status |-> PENDING])
                  ELSE is
           db_invoice_id == IF j = 0 THEN Len(is1) ELSE j
       IN IF j = 0 /\ p.due_date = None
          THEN [raised |-> TRUE, clients |-> cs1, invoices |-> is,
                payments |-> done]
          ELSE sync_rows(cs1, is1, Tail(payments), sheet_id,
                         Append(done, [invoice_id |-> p.invoice_id,
                                       db_invoice_id |-> db_invoice_id]))

\* fault: the sync sets the Invoice of every row it took back to pending
sync_to_database_resetting(cs, is, payments, sheet_id) ==
  LET r == sync_rows(cs, is, payments, sheet_id, <<>>)
      listed == {r.payments[q].db_invoice_id : q \in 1..Len(r.payments)}
  IN IF r.raised
     THEN [raised |-> TRUE, clients |-> cs, invoices |-> is, payments |-> <<>>]
     ELSE [r EXCEPT !.invoices =
             [i \in 1..Len(r.invoices) |->
                IF i \in listed
                THEN [r.invoices[i] EXCEPT !.payment_status = PENDING]
                ELSE r.invoices[i]]]

\* sync_to_database under get_db: commit at the end, rollback of the
\* whole session when a row raised
sync_to_database(cs, is, payments, sheet_id) ==
  LET r == sync_rows(cs, is, payments, sheet_id, <<>>)
  IN IF r.raised
     THEN [raised |-> TRUE, clients |-> cs, invoices |-> is, payments |-> <<>>]
     ELSE r

\* ---------------------------------------------------- make_single_call
\* fault: the CallLog is added whatever make_outbound_call returned
make_single_call_always_logs(logs, db_invoice_id, call_id) ==
  IF db_invoice_id = NoInvoice
  THEN logs
  ELSE Append(logs, NewCallLog(db_invoice_id, call_id))

\* make_single_call once make_outbound_call has returned call_id: the
\* CallLog is added only for a call id; its insert violates NOT NULL when
\* the payment carries no db_invoice_id, the session is rolled back and the
\* exception is caught and logged
make_single_call(logs, db_invoice_id, call_id) ==
  IF call_id # NoId
  THEN IF db_invoice_id = NoInvoice
       THEN logs
       ELSE Append(logs, NewCallLog(db_invoice_id, call_id))
  ELSE logs

\* ------------------------------------------------- clock and settings
\* one minute, in the unit of the clock
Minute == 1

\* settings.call_rate_limit_per_minute; a setting (10 unless configured),
\* taken here as one call per minute so that the delay is one step of the
\* clock
call_rate_limit_per_minute == 1

\* settings.business_start_time and settings.business_end_time, as times
\* of the clock; settings ("10:00" and "19:00" unless configured), taken
\* here as a window with clock times before it, inside it and after it
business_start_time == 1

business_end_time == 2

\* fault: only the start of the window is looked at
is_business_hours_after_start(t) ==
  business_start_time <= t

\* is_business_hours: start <= now <= end
is_business_hours(t) ==
  business_start_time <= t /\ t <= business_end_time

\* delay_between_calls = 60 / rate_limit
delay_between_calls == Minute \div call_rate_limit_per_minute

\* fault: the run goes on without waiting
next_wake_no_sleep(t, remaining) ==
  IF remaining # <<>> THEN t ELSE t

\* make_calls_with_rate_limit after make_single_call returned at t: the
\* time up to which it sleeps; no sleep after the last payment
next_wake(t, remaining) ==
  IF remaining # <<>> THEN t + delay_between_calls ELSE t

\* fault: a sheet that failed ends process_multiple_sheets
sheets_left_unless_failed(given, invoked) ==
  /\ Len(invoked) < Len(given)
  /\ \A i \in 1..Len(invoked) : invoked[i].failed = None

\* process_multiple_sheets: the for loop goes on to the next sheet id
\* whatever happened to the ones before
sheets_left(given, invoked) ==
  Len(invoked) < Len(given)

\* ----------------------------------------------------------- actions
NoRow == <<>>

\* no process_pending_payments has been invoked; fetched counts the rows
\* get_pending_payments returned, attempted the rows make_single_call was
\* called for by the time the invocation returned
NoInvocation ==
  [active |-> FALSE, sheet_id |-> None, gate |-> FALSE, read |-> FALSE,
   failed |-> None, rows |-> <<>>, calls |-> <<>>, wake |-> 0,
   fetched |-> 0, attempted |-> 0]

\* the database sessions of sync_to_database passes, and one that is
\* closed: the payments still to do, the rows added and flushed but not
\* committed, the stored Clients given another sheet id
Sessions == 1..MaxSessions

NoSync ==
  [pc |-> "closed", todo |-> <<>>, sheet_id |-> None, cs |-> <<>>,
   is |-> <<>>, moved |-> {}]

Init ==
  /\ clients = <<>>
  /\ invoices = <<>>
  /\ call_logs = <<>>
  /\ sheet = [s \in SheetIds |-> [i \in InvoiceIds |-> 0]]
  /\ next_call_id = 1
  /\ inflight = {}
  /\ batch = <<>>
  /\ delivered = 0
  /\ raised = FALSE
  /\ paid_reports = {}
  /\ solo = [c \in CallIds |-> NoRow]
  /\ now = 0
  /\ run = [n |-> 0, trigger |-> None, given |-> <<>>, invoked |-> <<>>,
            done |-> TRUE]
  /\ ppp = NoInvocation
  /\ placed = <<>>
  /\ syncs = [s \in Sessions |-> NoSync]
  /\ reported = {}

\* the call id of a 201 answer; NoId for every failure of the placement
\* (make_outbound_call returns None, or raises inside its own try)
make_outbound_call(answer) ==
  IF answer = "201" THEN next_call_id ELSE NoId

PlacementAnswers ==
  PlacementFailures \cup
    (IF next_call_id <= MaxCalls /\ Cardinality(inflight) < MaxInflight
     THEN {"201"} ELSE {})

\* fault: an exception of the sync leaves process_pending_payments
process_pending_payments_uncaught(cs, is, sheet_id, in_hours, fetched) ==
  LET r == sync_to_database(cs, is, fetched, sheet_id)
  IN IF in_hours /\ fetched # <<>>
     THEN [raised |-> r.raised, read |-> TRUE, clients |-> r.clients,
           invoices |-> r.invoices, payments |-> r.payments]
     ELSE [raised |-> FALSE, read |-> in_hours, clients |-> cs,
           invoices |-> is, payments |-> <<>>]

\* process_pending_payments up to the first call: the business-hours gate,
\* the fetch, the sync; payments is the list handed to
\* make_calls_with_rate_limit.  An exception of the sync is caught and
\* logged and ends the run.
process_pending_payments(cs, is, sheet_id, in_hours, fetched) ==
  LET r == sync_to_database(cs, is, fetched, sheet_id)
  IN IF ~in_hours
     THEN [raised |-> FALSE, read |-> FALSE, clients |-> cs,
           invoices |-> is, payments |-> <<>>]
     ELSE IF fetched = <<>>
     THEN [raised |-> FALSE, read |-> TRUE, clients |-> cs,
           invoices |-> is, payments |-> <<>>]
     ELSE [raised |-> FALSE, read |-> TRUE, clients |-> r.clients,
           invoices |-> r.invoices, payments |-> r.payments]

\* one batch run up to its first call, with what the fetch returned
ProcessPendingPayments(sheet_id, in_hours, fetched) ==
  /\ batch = <<>>
  /\ ~ \E f \in inflight : f.path = "batch"
  /\ LET r == process_pending_payments(clients, invoices, sheet_id, in_hours,
                                       fetched)
     IN /\ clients' = r.clients
        /\ invoices' = r.invoices
        /\ batch' = r.payments
        /\ raised' = r.raised
  /\ UNCHANGED <<call_logs, sheet, next_call_id, inflight, delivered,
                 paid_reports, solo>>

\* make_single_call up to the answer of the provider, for one payment
Place(path, db_invoice_id, answer) ==
  LET call_id == make_outbound_call(answer)
  IN /\ raised' = FALSE
     /\ IF call_id # NoId
        THEN /\ inflight' = inflight \cup
                  {[call_id |-> call_id, db_invoice_id |-> db_invoice_id,
                    path |-> path]}
             /\ next_call_id' = next_call_id + 1
             /\ UNCHANGED call_logs
        ELSE /\ call_logs' = make_single_call(call_logs, db_invoice_id, call_id)
             /\ UNCHANGED <<inflight, next_call_id>>
     /\ UNCHANGED <<clients, invoices, sheet, delivered, paid_reports, solo>>

\* make_calls_with_rate_limit: the next row of the batch is called
BatchPlaceCall(answer) ==
  /\ batch # <<>>
  /\ ~ \E f \in inflight : f.path = "batch"
  /\ answer \in PlacementAnswers
  /\ Place("batch", Head(batch).db_invoice_id, answer)
  /\ batch' = IF answer = "201" THEN batch ELSE Tail(batch)

\* POST /calls/trigger: 404 unless the invoice is stored
TriggerManualCall(ext_id, answer) ==
  /\ FindInvoice(invoices, ext_id) # 0
  /\ answer \in PlacementAnswers
  /\ Place("manual", FindInvoice(invoices, ext_id), answer)
  /\ UNCHANGED batch

\* the Make Calls page: a row of the sheet of a stored client, with
\* db_invoice_id None when the invoice of the row is not stored
DashboardCall(ext_id, answer) ==
  /\ clients # <<>>
  /\ answer \in PlacementAnswers
  /\ Place("dashboard", FindInvoice(invoices, ext_id), answer)
  /\ UNCHANGED batch

\* make_single_call after the provider answered with a call id
CommitCallLog(f) ==
  /\ f \in inflight
  /\ call_logs' = make_single_call(call_logs, f.db_invoice_id, f.call_id)
  /\ inflight' = inflight \ {f}
  /\ batch' = IF f.path = "batch" THEN Tail(batch) ELSE batch
  /\ solo' = IF f.db_invoice_id # NoInvoice
             THEN [solo EXCEPT ![f.call_id] =
                     <<NewCallLog(f.db_invoice_id, f.call_id)>>]
             ELSE solo
  /\ raised' = FALSE
  /\ UNCHANGED <<clients, invoices, sheet, next_call_id, delivered,
                 paid_reports>>

\* what the operations of one call alone make of its CallLog
SoloAfter(row, m) ==
  IF row = NoRow THEN NoRow
  ELSE CASE m.type = "status-update"
              -> <<[row[1] EXCEPT !.call_status =
                      IF m.status = "ended" THEN COMPLETED ELSE IN_PROGRESS]>>
         [] m.type = "end-of-call-report"
              -> IF generate_summary(m.outcome).raised THEN row
                 ELSE <<UpdatedCallLog(row[1], m.body, m.outcome,
                                       generate_summary(m.outcome).value)>>
         [] OTHER -> row

\* POST /vapi/webhook: one delivery, processed to the end
DeliverWebhook(m) ==
  /\ delivered < MaxWebhooks
  /\ delivered' = delivered + 1
  /\ LET r == process_call_webhook(call_logs, invoices, clients, sheet, m)
         known == m.call_id # NoId /\ solo[m.call_id] # NoRow
     IN /\ call_logs' = r.call_logs
        /\ invoices' = r.invoices
        /\ sheet' = r.sheet
        /\ raised' = r.raised
        /\ paid_reports' =
             IF m.type = "end-of-call-report" /\ known
                /\ Get(m.outcome, "payment_status", None) = "paid"
             THEN paid_reports \cup {m.call_id}
             ELSE paid_reports
        /\ solo' = IF m.call_id = NoId THEN solo
                   ELSE [solo EXCEPT ![m.call_id] = SoloAfter(@, m)]
  /\ UNCHANGED <<clients, next_call_id, inflight, batch>>

Next ==
  \/ /\ \E sheet_id \in SheetIds \cup {None}, in_hours \in BOOLEAN :
          \E fetched \in IF in_hours THEN FetchedLists ELSE {<<>>} :
            ProcessPendingPayments(sheet_id, in_hours, fetched)
     /\ UNCHANGED tvars
  \/ /\ \E answer \in PlacementFailures \cup {"201"} : BatchPlaceCall(answer)
     /\ UNCHANGED tvars
  \/ /\ \E ext_id \in InvoiceIds, answer \in PlacementFailures \cup {"201"} :
          TriggerManualCall(ext_id, answer)
     /\ UNCHANGED tvars
  \/ /\ \E ext_id \in InvoiceIds, answer \in PlacementFailures \cup {"201"} :
          DashboardCall(ext_id, answer)
     /\ UNCHANGED tvars
  \/ /\ \E f \in inflight : CommitCallLog(f)
     /\ UNCHANGED tvars
  \/ /\ \E m \in Messages : DeliverWebhook(m)
     /\ UNCHANGED tvars

Spec == Init /\ [][Next]_vars

\* ------------------------------------- deliveries with their history
\* POST /vapi/webhook, with the call ids noted whose end-of-call-report
\* was delivered, whatever the handler made of it
DeliverAndNote(m) ==
  /\ DeliverWebhook(m)
  /\ reported' = IF m.type = "end-of-call-report" /\ m.call_id # NoId
                 THEN reported \cup {m.call_id}
                 ELSE reported
  /\ UNCHANGED <<now, run, ppp, placed, syncs>>

ReportNext ==
  \/ /\ \E sheet_id \in SheetIds \cup {None}, in_hours \in BOOLEAN :
          \E fetched \in IF in_hours THEN FetchedLists ELSE {<<>>} :
            ProcessPendingPayments(sheet_id, in_hours, fetched)
     /\ UNCHANGED tvars
  \/ /\ \E answer \in PlacementFailures \cup {"201"} : BatchPlaceCall(answer)
     /\ UNCHANGED tvars
  \/ /\ \E ext_id \in InvoiceIds, answer \in PlacementFailures \cup {"201"} :
          TriggerManualCall(ext_id, answer)
     /\ UNCHANGED tvars
  \/ /\ \E ext_id \in InvoiceIds, answer \in PlacementFailures \cup {"201"} :
          DashboardCall(ext_id, answer)
     /\ UNCHANGED tvars
  \/ /\ \E f \in inflight : CommitCallLog(f)
     /\ UNCHANGED tvars
  \/ \E m \in Messages : DeliverAndNote(m)

ReportSpec == Init /\ [][ReportNext]_vars

\* ------------------------------------------------- batch runs in time
\* the store and the webhook bookkeeping
dbvars == <<clients, invoices, call_logs, sheet, next_call_id, inflight,
            batch, delivered, raised, paid_reports, solo>>

\* the ways a batch is triggered: the scheduled daily run and POST
\* /process-all call process_pending_payments(), process_multiple_sheets
\* is given a list of sheet ids
Triggers ==
  {[trigger |-> t, given |-> <<None>>] : t \in {"scheduled", "manual"}}
    \cup {[trigger |-> "sheets", given |-> ids] :
            ids \in SeqsUpTo(SheetIds, MaxSheets)}

\* time passes
Tick ==
  /\ now < MaxTime
  /\ now' = now + 1
  /\ UNCHANGED <<dbvars, run, ppp, placed, syncs, reported>>

\* run_daily_calls, process_all_pending or process_multiple_sheets starts
TriggerRun(t) ==
  /\ run.done
  /\ ~ppp.active
  /\ run.n < MaxRuns
  /\ run' = [n |-> run.n + 1, trigger |-> t.trigger, given |-> t.given,
             invoked |-> <<>>, done |-> FALSE]
  /\ UNCHANGED <<dbvars, now, ppp, placed, syncs, reported>>

\* process_pending_payments is invoked for the next sheet id of the run
\* and goes up to its first call
InvokeProcessPendingPayments(fetch) ==
  /\ ~run.done
  /\ ~ppp.active
  /\ sheets_left(run.given, run.invoked)
  /\ LET sheet_id == run.given[Len(run.invoked) + 1]
         fetched == get_pending_payments(fetch)
         r == process_pending_payments(clients, invoices, sheet_id,
                                       is_business_hours(now), fetched)
         failed == IF ~r.read THEN None
                   ELSE IF ~fetch.opens THEN "fetch"
                   ELSE IF fetched # <<>> /\ r.payments = <<>> THEN "sync"
                   ELSE None
     IN /\ ProcessPendingPayments(sheet_id, is_business_hours(now), fetched)
        /\ ppp' = [active |-> r.payments # <<>>, sheet_id |-> sheet_id,
                   gate |-> is_business_hours(now), read |-> r.read,
                   failed |-> failed, rows |-> r.payments, calls |-> <<>>,
                   wake |-> 0,
                   fetched |-> IF r.read THEN Len(fetched) ELSE 0,
                   attempted |-> 0]
        /\ run' = [run EXCEPT !.invoked =
                     Append(@, [sheet_id |-> sheet_id, failed |-> failed])]
  /\ UNCHANGED <<now, placed, syncs, reported>>

\* make_single_call has returned at the time it is: the run sleeps before
\* the next payment
AfterMakeSingleCall(p, remaining) ==
  [p EXCEPT !.wake = next_wake(now, remaining)]

\* make_calls_with_rate_limit places the call of the next payment
RateLimitedPlaceCall(answer) ==
  /\ ppp.active
  /\ now >= ppp.wake
  /\ BatchPlaceCall(answer)
  /\ LET called == [ppp EXCEPT !.calls =
                      Append(@, [db_invoice_id |-> Head(batch).db_invoice_id,
                                 at |-> now])]
     IN ppp' = IF answer = "201" THEN called
               ELSE AfterMakeSingleCall(called, Tail(batch))
  /\ placed' = IF answer = "201" THEN Append(placed, now) ELSE placed
  /\ UNCHANGED <<now, run, syncs, reported>>

\* the CallLog of the placed batch call is committed and make_single_call
\* returns
RateLimitedCommitCallLog(f) ==
  /\ ppp.active
  /\ f.path = "batch"
  /\ CommitCallLog(f)
  /\ ppp' = AfterMakeSingleCall(ppp, Tail(batch))
  /\ UNCHANGED <<now, run, placed, syncs, reported>>

\* make_calls_with_rate_limit and process_pending_payments return; the
\* frame of the invocation is gone
ReturnFromBatch ==
  /\ ppp.active
  /\ batch = <<>>
  /\ inflight = {}
  /\ now >= ppp.wake
  /\ ppp' = [ppp EXCEPT !.active = FALSE, !.rows = <<>>, !.calls = <<>>,
                        !.wake = 0, !.attempted = Len(ppp.calls)]
  /\ UNCHANGED <<dbvars, now, run, placed, syncs, reported>>

\* the trigger returns once no sheet id is left
FinishRun ==
  /\ ~run.done
  /\ ~ppp.active
  /\ ~sheets_left(run.given, run.invoked)
  /\ run' = [run EXCEPT !.done = TRUE]
  /\ UNCHANGED <<dbvars, now, ppp, placed, syncs, reported>>

BatchNext ==
  \/ Tick
  \/ \E t \in Triggers : TriggerRun(t)
  \/ \E fetch \in Fetches : InvokeProcessPendingPayments(fetch)
  \/ \E answer \in PlacementFailures \cup {"201"} :
       RateLimitedPlaceCall(answer)
  \/ \E f \in inflight : RateLimitedCommitCallLog(f)
  \/ ReturnFromBatch
  \/ FinishRun

BatchSpec == Init /\ [][BatchNext]_vars

\* ------------------------------------- sync passes, session by session
\* the values of a column over the rows of a table
Column(table, name) == {table[i][name] : i \in 1..Len(table)}

\* what the other sessions have flushed and not yet committed
OthersClients(s) ==
  UNION {Column(syncs[t].cs, "contact_number") : t \in Sessions \ {s}}

OthersInvoices(s) ==
  UNION {Column(syncs[t].is, "invoice_id") : t \in Sessions \ {s}}

\* fault: the column takes a value a row already holds
unique_not_enforced(held, value) == FALSE

\* unique=True on Client.contact_number and Invoice.invoice_id: an INSERT
\* of a value that a row holds is refused
unique_violated(held, value) == value \in held

ssvars == <<call_logs, sheet, next_call_id, inflight, batch, delivered,
            raised, paid_reports, solo, now, run, ppp, placed, reported>>

\* the session is rolled back and closed: get_db on an exception
Rollback(s) == syncs' = [syncs EXCEPT ![s] = NoSync]

\* the loop goes on to the next payment, or get_db commits
AfterRow(session) ==
  [session EXCEPT !.todo = Tail(@),
                  !.pc = IF Tail(session.todo) = <<>> THEN "commit"
                         ELSE "query_client"]

\* sync_to_database is entered: with get_db() as db
BeginSync(s, payments, sheet_id) ==
  /\ syncs[s].pc = "closed"
  /\ payments # <<>>
  /\ syncs' = [syncs EXCEPT ![s] =
                 [NoSync EXCEPT !.pc = "query_client", !.todo = payments,
                                !.sheet_id = sheet_id]]
  /\ UNCHANGED <<clients, invoices, ssvars>>

\* db.query(Client).filter(contact_number == ...).first(), and for a
\* Client that is found the assignment of the sheet id
QueryClient(s) ==
  /\ syncs[s].pc = "query_client"
  /\ LET me == syncs[s]
         p == Head(me.todo)
         k == FindClient(clients, p.contact_number)
         mine == p.contact_number \in Column(me.cs, "contact_number")
         moves == /\ k # 0
                  /\ me.sheet_id # None
                  /\ resynced_sheet_id(clients[k].google_sheet_id,
                                       me.sheet_id)
                       # clients[k].google_sheet_id
     IN syncs' = [syncs EXCEPT ![s] =
                    [me EXCEPT
                       !.pc = IF k # 0 \/ mine THEN "query_invoice"
                              ELSE "flush_client",
                       !.moved = IF moves THEN @ \cup {p.contact_number}
                                 ELSE @]]
  /\ UNCHANGED <<clients, invoices, ssvars>>

\* db.add(client); db.flush(): the INSERT waits for a session that has
\* inserted the same number, and is refused when a Client holds it
FlushClient(s) ==
  /\ syncs[s].pc = "flush_client"
  /\ LET me == syncs[s]
         p == Head(me.todo)
     IN /\ ~unique_violated(OthersClients(s), p.contact_number)
        /\ IF unique_violated(Column(clients, "contact_number"),
                              p.contact_number)
           THEN Rollback(s)
           ELSE syncs' = [syncs EXCEPT ![s] =
                            [me EXCEPT
                               !.pc = "query_invoice",
                               !.cs = Append(@,
                                  [contact_number |-> p.contact_number,
                                   google_sheet_id |->
                                     get_sheet(me.sheet_id)])]]
  /\ UNCHANGED <<clients, invoices, ssvars>>

\* db.query(Invoice).filter(invoice_id == ...).first()
QueryInvoice(s) ==
  /\ syncs[s].pc = "query_invoice"
  /\ LET me == syncs[s]
         p == Head(me.todo)
         found == \/ FindInvoice(invoices, p.invoice_id) # 0
                  \/ p.invoice_id \in Column(me.is, "invoice_id")
     IN syncs' = [syncs EXCEPT ![s] =
                    IF found THEN AfterRow(me)
                    ELSE [me EXCEPT !.pc = "flush_invoice"]]
  /\ UNCHANGED <<clients, invoices, ssvars>>

\* db.add(invoice); db.flush(): refused without a due date (NOT NULL) and
\* when an Invoice holds the invoice id
FlushInvoice(s) ==
  /\ syncs[s].pc = "flush_invoice"
  /\ LET me == syncs[s]
         p == Head(me.todo)
     IN /\ ~unique_violated(OthersInvoices(s), p.invoice_id)
        /\ IF \/ p.due_date = None
              \/ unique_violated(Column(invoices, "invoice_id"),
                                 p.invoice_id)
           THEN Rollback(s)
           ELSE syncs' = [syncs EXCEPT ![s] =
                            AfterRow([me EXCEPT
                              !.is = Append(@,
                                 [contact_number |-> p.contact_number,
                                  invoice_id |-> p.invoice_id])])]
  /\ UNCHANGED <<clients, invoices, ssvars>>

\* get_db leaves the with block: db.commit() writes the new rows and the
\* reassigned sheet ids
CommitSync(s) ==
  /\ syncs[s].pc = "commit"
  /\ LET me == syncs[s]
         reassigned ==
           [k \in 1..Len(clients) |->
              IF clients[k].contact_number \in me.moved
              THEN [clients[k] EXCEPT !.google_sheet_id = me.sheet_id]
              ELSE clients[k]]
         cs1 == reassigned \o me.cs
     IN /\ clients' = cs1
        /\ invoices' =
             invoices \o
               [i \in 1..Len(me.is) |->
                  [client_id |-> FindClient(cs1, me.is[i].contact_number),
                   invoice_id |-> me.is[i].invoice_id,
                   payment_status |-> PENDING]]
  /\ syncs' = [syncs EXCEPT ![s] = NoSync]
  /\ UNCHANGED ssvars

SyncNext ==
  \/ \E s \in Sessions, payments \in FetchedLists,
        sheet_id \in SheetIds \cup {None} : BeginSync(s, payments, sheet_id)
  \/ \E s \in Sessions : QueryClient(s)
  \/ \E s \in Sessions : FlushClient(s)
  \/ \E s \in Sessions : QueryInvoice(s)
  \/ \E s \in Sessions : FlushInvoice(s)
  \/ \E s \in Sessions : CommitSync(s)

SyncSpec == Init /\ [][SyncNext]_vars

\* ------------------------------------------------------------ claims
\* the primary keys of the CallLogs holding a call id
RowsOf(call_id) ==
  {k \in 1..Len(call_logs) : call_logs[k].vapi_call_id = call_id}

\* process_call_webhook on the state as it is
Handled(m) == process_call_webhook(call_logs, invoices, clients, sheet, m)

\* C1: an end-of-call-report for a call id that has a CallLog sets the
\* parent Invoice to paid when the classified payment_status is 'paid',
\* and leaves the Invoice's payment_status as it was for every other
\* classified payment_status.
C1_PaidReportMarksInvoicePaid ==
  \A m \in EndOfCallReports : \A o \in Outcomes :
    \A k \in RowsOf(m.call_id) :
      LET inv == call_logs[k].invoice_id
          after == Handled([m EXCEPT !.outcome = o]).invoices
      IN IF Get(o, "payment_status", None) = "paid"
         THEN after[inv].payment_status = PAID
         ELSE after[inv].payment_status = invoices[inv].payment_status

\* C2: once an end-of-call-report has been applied to a CallLog (it holds
\* a transcript) and its call_status is completed, no later step moves
\* its call_status away from completed.
C2_CompletedIsTerminal ==
  [][\A k \in 1..Len(call_logs) :
       (call_logs[k].transcript # None /\ call_logs[k].call_status = COMPLETED)
         => call_logs'[k].call_status = COMPLETED]_vars

\* C3: every call id the provider returned to make_single_call, on the
\* batch, manual and dashboard paths, results in exactly one new CallLog
\* holding that id, bound to the invoice of the payment, in_progress.
C3_ReturnedCallIdGetsOneCallLog ==
  [][\A f \in inflight :
       CommitCallLog(f)
         => /\ call_logs' =
                 Append(call_logs, NewCallLog(f.db_invoice_id, f.call_id))
            /\ f.db_invoice_id \in 1..Len(invoices)]_vars

\* C4: every CallLog holds a call id the provider handed out: no CallLog
\* exists for a placement that returned no call id.
C4_CallLogImpliesCallPlaced ==
  \A k \in 1..Len(call_logs) :
    /\ call_logs[k].vapi_call_id # NoId
    /\ call_logs[k].vapi_call_id \in 1..(next_call_id - 1)

\* a one-row batch was synced and its placement failed: the batch is used
\* up, no call id was ever handed out and there is no CallLog
C4_Witness ==
  /\ invoices # <<>>
  /\ batch = <<>>
  /\ next_call_id = 1
  /\ call_logs = <<>>

\* the events the handler has to drop
Dropped(m) ==
  \/ m.type \notin {"status-update", "end-of-call-report"}
  \/ m.call_id = NoId
  \/ RowsOf(m.call_id) = {}

\* C5: a status-update or end-of-call-report whose call id is missing or
\* matches no CallLog, a transcript event and an event of any other or
\* absent type leave every CallLog, Invoice and Client row and the
\* spreadsheet unchanged, and nothing is raised.
C5_DroppedEventsChangeNothing ==
  \A m \in Messages :
    Dropped(m) => /\ Handled(m).call_logs = call_logs
                  /\ Handled(m).invoices = invoices
                  /\ Handled(m).sheet = sheet
                  /\ ~Handled(m).raised

\* a webhook was delivered while no CallLog exists, so whatever it was it
\* had to be dropped: the Invoices are as the sync stored them and the
\* sheet was not written
C5_Witness ==
  /\ delivered > 0
  /\ call_logs = <<>>
  /\ invoices # <<>>
  /\ \A i \in 1..Len(invoices) : invoices[i].payment_status = PENDING
  /\ sheet = [s \in SheetIds |-> [i \in InvoiceIds |-> 0]]
  /\ ~raised

\* the internal status a provider status stands for
ExpectedStatus(status) ==
  IF status = "ended" THEN COMPLETED ELSE IN_PROGRESS

\* C6: a status-update for a call id that has a CallLog sets its
\* call_status to in_progress for queued, ringing, in-progress and
\* forwarding, to completed for ended, to in_progress for every other or
\* missing status; no other CallLog field, no Invoice, no sheet cell
\* changes and nothing is raised.
C6_StatusUpdateMapping ==
  \A m \in StatusUpdates : \A k \in RowsOf(m.call_id) :
    /\ Handled(m).call_logs =
         [call_logs EXCEPT ![k].call_status = ExpectedStatus(m.status)]
    /\ m.status \in {"queued", "ringing", "in-progress", "forwarding"}
         => Handled(m).call_logs[k].call_status = IN_PROGRESS
    /\ Handled(m).invoices = invoices
    /\ Handled(m).sheet = sheet
    /\ ~Handled(m).raised

\* a CallLog completed by a status-update 'ended': no report has filled it
C6_Witness ==
  \E k \in 1..Len(call_logs) :
    /\ call_logs[k].call_status = COMPLETED
    /\ call_logs[k].transcript = None

\* C7: the same end-of-call-report, classified the same way, applied a
\* second time leaves the CallLogs and the Invoices as the first
\* application left them.
C7_EndOfCallReportIdempotent ==
  \A m \in EndOfCallReports :
    LET once == Handled(m)
        twice == process_call_webhook(once.call_logs, once.invoices, clients,
                                      once.sheet, m)
    IN /\ twice.call_logs = once.call_logs
       /\ twice.invoices = once.invoices

\* one CallLog took two reports (its sheet row counts two calls) and its
\* invoice is still pending: both were the one report that is neither
\* classified paid nor lost
C7_Witness ==
  /\ Len(call_logs) = 1
  /\ call_logs[1].call_outcome = "unsuccessful"
  /\ invoices[call_logs[1].invoice_id].payment_status = PENDING
  /\ \E s \in SheetIds :
       sheet[s][invoices[call_logs[1].invoice_id].invoice_id] = 2

\* C8: whatever the interleaving of the webhooks of one call with the
\* webhooks and the dispatch of another, the CallLog of each call id is
\* the row its own operations alone make: an event for one call id never
\* changes the CallLog of another.
C8_CallsAreIndependent ==
  \A c \in CallIds :
    IF solo[c] = NoRow
    THEN RowsOf(c) = {}
    ELSE /\ Cardinality(RowsOf(c)) = 1
         /\ \A k \in RowsOf(c) : call_logs[k] = solo[c][1]

\* two calls, the first CallLog filled by a report, the second completed
\* by a status-update
C8_Witness ==
  /\ Len(call_logs) = 2
  /\ call_logs[1].transcript # None
  /\ call_logs[2].transcript = None
  /\ call_logs[2].call_status = COMPLETED

\* C9: sync_to_database run a second time with the same rows and the same
\* sheet id leaves the Client and Invoice rows the first run left.
C9_SyncIdempotent ==
  \A payments \in PaymentLists : \A sheet_id \in SheetIds \cup {None} :
    LET once == sync_to_database(clients, invoices, payments, sheet_id)
        twice == sync_to_database(once.clients, once.invoices, payments,
                                  sheet_id)
    IN /\ twice.clients = once.clients
       /\ twice.invoices = once.invoices

\* the state one run over two rows of a sheet other than the default
\* leaves: the rows are stored and the batch waits for its calls
C9_Witness ==
  \E payments \in FetchedLists :
    /\ Len(payments) = 2
    /\ payments[1].invoice_id # payments[2].invoice_id
    /\ sync_to_database(<<>>, <<>>, payments, "sheetB")
         = [raised |-> FALSE, clients |-> clients, invoices |-> invoices,
            payments |-> batch]

\* C10: an Invoice that is paid has a CallLog of its own whose call id
\* took an end-of-call-report classified 'paid'; no other operation sets
\* an Invoice to paid.
C10_PaidOnlyByPaidReport ==
  \A i \in 1..Len(invoices) :
    invoices[i].payment_status = PAID
      => \E k \in 1..Len(call_logs) :
           /\ call_logs[k].invoice_id = i
           /\ call_logs[k].vapi_call_id \in paid_reports

\* an Invoice is paid
C10_Witness ==
  \E i \in 1..Len(invoices) : invoices[i].payment_status = PAID

\* the classifier-derived columns of a CallLog, as the record gives them
ClassifierFields(o) ==
  [payment_promised |-> Get(o, "payment_promised", FALSE),
   payment_promise_date |-> Get(o, "payment_promise_date", None),
   needs_invoice_resend |-> Get(o, "needs_invoice_resend", FALSE),
   customer_disputed |-> Get(o, "customer_disputed", FALSE),
   dispute_reason |-> Get(o, "dispute_reason", None),
   next_follow_up_date |-> Get(o, "next_follow_up_date", None),
   language_detected |-> Get(o, "language_detected", None),
   customer_sentiment |-> Get(o, "customer_sentiment", None),
   call_outcome |-> Get(o, "call_outcome", None)]

\* C15: for every end-of-call-report whose call id has a CallLog, whatever
\* record the classifier produces (complete, with missing or null fields,
\* or the fallback record), the CallLog ends completed, with a non-empty
\* transcript and the classifier-derived fields of the record.
C15_ReportAlwaysCompletesCallLog ==
  \A m \in EndOfCallReports : \A o \in Outcomes :
    \A k \in RowsOf(m.call_id) :
      LET row == Handled([m EXCEPT !.outcome = o]).call_logs[k]
      IN /\ row.call_status = COMPLETED
         /\ row.transcript \notin {None, ""}
         /\ \A f \in DOMAIN ClassifierFields(o) :
              row[f] = ClassifierFields(o)[f]

\* the write-backs that fail
SheetFailures == SheetResults \ {"ok"}

\* C16: when the write-back to the spreadsheet fails, the CallLog update
\* and the Invoice paid transition of the same event are committed as if
\* it had succeeded, and process_call_webhook does not raise.
C16_SheetFailureKeepsDatabaseWrites ==
  \A m \in EndOfCallReports : \A k \in RowsOf(m.call_id) :
    (m.sheet_result \in SheetFailures /\ ~generate_summary(m.outcome).raised)
      => /\ Handled(m).call_logs
              = Handled([m EXCEPT !.sheet_result = "ok"]).call_logs
         /\ Handled(m).call_logs[k].call_status = COMPLETED
         /\ Handled(m).call_logs[k].transcript = Transcript(m.body)
         /\ Handled(m).invoices
              = Handled([m EXCEPT !.sheet_result = "ok"]).invoices
         /\ MarksPaid(m.outcome)
              => Handled(m).invoices[call_logs[k].invoice_id].payment_status
                   = PAID
         /\ ~Handled(m).raised

\* a report classified paid was applied (the CallLog is filled, the
\* Invoice is paid) while no row of the sheet was written
C16_Witness ==
  /\ \E k \in 1..Len(call_logs) :
       /\ call_logs[k].transcript # None
       /\ call_logs[k].call_status = COMPLETED
       /\ invoices[call_logs[k].invoice_id].payment_status = PAID
  /\ sheet = [s \in SheetIds |-> [i \in InvoiceIds |-> 0]]

\* the batch calls placed in the minute that starts at t
PlacedInMinuteFrom(t) ==
  {i \in 1..Len(placed) : t <= placed[i] /\ placed[i] < t + Minute}

\* C11: with a limit of R calls per minute, no more than R batch calls
\* are placed in any window of one minute, however the batches are
\* triggered (scheduled run, manual trigger, one sheet after another).
C11_RateLimitHoldsAcrossBatches ==
  \A t \in 0..MaxTime :
    Cardinality(PlacedInMinuteFrom(t)) <= call_rate_limit_per_minute

\* the time between a call and the next that the limit asks for
RequiredDelay == Minute \div call_rate_limit_per_minute

\* C12: within one batch run the calls are placed one at a time in the
\* order of the rows, each at least 60/R after the one before, with no
\* sleep after the last, so that a run that has placed n calls has lasted
\* at least (n-1)*(60/R).
C12_BatchCallsSequentialAndDelayed ==
  /\ Len(ppp.calls) <= Len(ppp.rows)
  /\ \A i \in 1..Len(ppp.calls) :
       ppp.calls[i].db_invoice_id = ppp.rows[i].db_invoice_id
  /\ Len(ppp.calls) + Len(batch) \in {Len(ppp.rows), Len(ppp.rows) + 1}
  /\ Cardinality({f \in inflight : f.path = "batch"}) <= 1
  /\ \A i \in 1..(Len(ppp.calls) - 1) :
       ppp.calls[i + 1].at - ppp.calls[i].at >= RequiredDelay
  /\ ppp.calls # <<>>
       => now - ppp.calls[1].at >= (Len(ppp.calls) - 1) * RequiredDelay
  /\ (ppp.active /\ batch = <<>> /\ inflight = {}) => ppp.wake <= now

\* a run over two rows has placed both calls, the second a delay after
\* the first, and is free to return
C12_Witness ==
  /\ ppp.active
  /\ Len(ppp.rows) = 2
  /\ Len(ppp.calls) = 2
  /\ ppp.calls[2].at = ppp.calls[1].at + RequiredDelay
  /\ batch = <<>>
  /\ inflight = {}

\* C13: whenever a batch run places a call, the local time is inside the
\* business-hours window.
C13_BatchCallsInsideBusinessHours ==
  \A i \in 1..Len(placed) :
    business_start_time <= placed[i] /\ placed[i] <= business_end_time

\* C14: process_pending_payments invoked outside the business-hours
\* window reads no spreadsheet, writes no Client or Invoice, hands no
\* payment to the calls and returns normally.
C14_OutsideBusinessHoursNoOp ==
  (now < business_start_time \/ now > business_end_time)
    => \A sheet_id \in SheetIds \cup {None} : \A fetch \in Fetches :
         LET r == process_pending_payments(clients, invoices, sheet_id,
                    is_business_hours(now), get_pending_payments(fetch))
         IN /\ ~r.read
            /\ r.clients = clients
            /\ r.invoices = invoices
            /\ r.payments = <<>>
            /\ ~r.raised

\* a run was triggered after hours and its process_pending_payments came
\* back from the gate: nothing read, nothing to call
C14_Witness ==
  /\ now > business_end_time
  /\ run.invoked # <<>>
  /\ ~ppp.gate
  /\ ~ppp.read
  /\ ~ppp.active
  /\ batch = <<>>
  /\ clients = <<>>
  /\ invoices = <<>>
  /\ call_logs = <<>>
  /\ ~raised

\* the Clients and Invoices the sync over the given payments leaves
Synced(payments, sheet_id) ==
  sync_to_database(clients, invoices, payments, sheet_id)

\* C17: a failure part-way through a batch run does not undo the earlier
\* steps of the run: when the sync fails at a row, the Clients and
\* Invoices written for the rows before it remain persisted.
C17_FailureKeepsEarlierWrites ==
  \A fetch \in Fetches : \A sheet_id \in SheetIds \cup {None} :
    LET payments == get_pending_payments(fetch)
    IN \A n \in 0..(Len(payments) - 1) :
         LET before == Synced(SubSeq(payments, 1, n), sheet_id)
             failing ==
               sync_to_database(before.clients, before.invoices,
                                <<payments[n + 1]>>, sheet_id)
             whole == Synced(payments, sheet_id)
         IN (~before.raised /\ failing.raised)
              => /\ whole.invoices = before.invoices
                 /\ Len(whole.clients) >= Len(before.clients)
                 /\ SubSeq(whole.clients, 1, Len(before.clients))
                      = before.clients

\* C18: process_pending_payments returns normally whenever the fetch, the
\* sync or a call placement fails, and does not try the failed step
\* again: a failed fetch or sync ends the run with no call, and every row
\* is tried once, in order, whatever the provider answered.
C18_FailuresCaughtNoRetry ==
  /\ ~raised
  /\ \A sheet_id \in SheetIds \cup {None} : \A fetch \in Fetches :
       ~process_pending_payments(clients, invoices, sheet_id,
                                 is_business_hours(now),
                                 get_pending_payments(fetch)).raised
  /\ ppp.failed # None
       => /\ ~ppp.active
          /\ ppp.rows = <<>>
          /\ ppp.calls = <<>>
          /\ batch = <<>>
  /\ run.trigger \in {"scheduled", "manual"} => Len(run.invoked) <= 1
  /\ \A i \in 1..Len(ppp.calls) :
       /\ i <= Len(ppp.rows)
       /\ ppp.calls[i].db_invoice_id = ppp.rows[i].db_invoice_id

\* the sync of the first sheet of a run failed, and on the next sheet a
\* placement failed: no call is placed, nothing is raised, the run goes on
C18_Witness ==
  /\ Len(run.invoked) = 2
  /\ run.invoked[1].failed = "sync"
  /\ ppp.active
  /\ ppp.calls # <<>>
  /\ placed = <<>>
  /\ inflight = {}
  /\ call_logs = <<>>
  /\ ~raised

\* C19: process_multiple_sheets invokes process_pending_payments once for
\* each sheet id of its list, in list order; a failure on one sheet does
\* not keep a later sheet from being processed.
C19_EverySheetInvokedOnceInOrder ==
  run.trigger = "sheets"
    => /\ Len(run.invoked) <= Len(run.given)
       /\ \A i \in 1..Len(run.invoked) :
            run.invoked[i].sheet_id = run.given[i]
       /\ Len(run.invoked) < Len(run.given)
            => sheets_left(run.given, run.invoked)
       /\ run.done => Len(run.invoked) = Len(run.given)

\* process_multiple_sheets over two sheets has returned; the first sheet
\* failed and the second was processed all the same
C19_Witness ==
  /\ run.trigger = "sheets"
  /\ run.done
  /\ Len(run.given) = 2
  /\ Len(run.invoked) = 2
  /\ run.invoked[1].failed # None
  /\ run.invoked[2].failed = None

\* a row whose amount parses and that has a date that parses
RowParses(row) ==
  /\ parse_amount(row.pending) > 0
  /\ parse_date(row.due_date) # None \/ parse_date(row.invoice_date) # None

\* C20: a row whose amount or date cannot be parsed is left out of what
\* get_pending_payments returns and is not fatal: every other row of the
\* sheet is returned, synced and handed to the calls of the same run.
C20_UnparsableRowsSkippedNotFatal ==
  \A fetch \in Fetches : \A sheet_id \in SheetIds \cup {None} :
    fetch.opens
      => LET valid == SelectSeq(fetch.rows, RowParses)
             result == get_pending_payments(fetch)
             r == process_pending_payments(clients, invoices, sheet_id, TRUE,
                                           result)
         IN /\ Len(result) = Len(valid)
            /\ \A i \in 1..Len(valid) :
                 /\ result[i].invoice_id = valid[i].invoice_id
                 /\ FindInvoice(r.invoices, valid[i].invoice_id) # 0
                 /\ \E j \in 1..Len(r.payments) :
                      r.payments[j].invoice_id = valid[i].invoice_id

\* ------------------------------------------------- parse_call_outcome
\* the text of a model response, cut into pieces: the marks that open and
\* close a fenced json block, the
\* braces, prose, and the members of a JSON object
EmptyObject == [k \in {} |-> None]

Members ==
  [paid |-> OutcomePaid,
   will_pay |-> OutcomeWillPay,
   will_pay_next_week |->
     [OutcomeWillPay EXCEPT !.payment_promise_date = "next week"]]

ResponseTexts ==
  {<<"fence json", "{", "paid", "}", "fence">>,
   <<"prose", "{", "will_pay", "}">>,
   <<"{", "will_pay_next_week", "}">>,
   <<"{", "}">>,
   <<"{", "paid", "{", "}", "}">>,
   <<"{", "paid">>,
   <<"fence json", "{", "prose", "}", "fence">>,
   <<"prose">>,
   <<>>}

\* generate_content returns a response with a text, or raises
ModelReplies ==
  {[raises |-> FALSE, text |-> t] : t \in ResponseTexts}
    \cup {[raises |-> TRUE, text |-> <<>>]}

\* the end of the shortest match of \{.*?\} from position i on which
\* the piece after the brace is as asked; 0 when there is none
ObjectEnd(text, i, fenced) ==
  LET ends == {j \in (i + 1)..Len(text) :
                 /\ text[j] = "}"
                 /\ fenced => (j < Len(text) /\ text[j + 1] = "fence")}
  IN IF ends = {} THEN 0
     ELSE CHOOSE j \in ends : \A k \in ends : j <= k

\* _clean_json_response: the object of a fenced json block, else the first
\* bare object, else "{}"
clean_json_response(text) ==
  LET blocks == {i \in 1..(Len(text) - 1) :
                   /\ text[i] = "fence json"
                   /\ text[i + 1] = "{"
                   /\ ObjectEnd(text, i + 1, TRUE) # 0}
      bare == {i \in 1..Len(text) :
                 text[i] = "{" /\ ObjectEnd(text, i, FALSE) # 0}
      first(S) == CHOOSE i \in S : \A k \in S : i <= k
  IN IF blocks # {}
     THEN SubSeq(text, first(blocks) + 1,
                 ObjectEnd(text, first(blocks) + 1, TRUE))
     ELSE IF bare # {}
     THEN SubSeq(text, first(bare), ObjectEnd(text, first(bare), FALSE))
     ELSE <<"{", "}">>

\* json.loads: the object of a well-formed string, or ValueError
json_loads(json_string) ==
  IF json_string = <<"{", "}">>
  THEN [raised |-> FALSE, value |-> EmptyObject]
  ELSE IF /\ Len(json_string) = 3
          /\ json_string[1] = "{"
          /\ json_string[2] \in DOMAIN Members
          /\ json_string[3] = "}"
  THEN [raised |-> FALSE, value |-> Members[json_string[2]]]
  ELSE [raised |-> TRUE, value |-> EmptyObject]

\* datetime.strptime(s, '%Y-%m-%d').date() inside try/except: the date,
\* None when the string is no such date
strptime_date(s) ==
  IF s \in {"2025-05-01", "2025-05-02"} THEN s ELSE None

\* the two date members are converted when present and truthy
converted_dates(result) ==
  [k \in DOMAIN result |->
     IF k \in {"payment_promise_date", "next_follow_up_date"}
          /\ Truthy(result[k])
     THEN strptime_date(result[k])
     ELSE result[k]]

\* parse_call_outcome: everything runs inside one try whose except returns
\* the default structure
parse_call_outcome(reply) ==
  LET loaded == json_loads(clean_json_response(reply.text))
  IN IF reply.raises \/ loaded.raised
     THEN FallbackOutcome
     ELSE converted_dates(loaded.value)

\* the response holds a JSON object with the members of an outcome
\* somewhere in its text
HoldsOutcomeObject(text) ==
  \E i \in 1..(Len(text) - 2) :
    /\ text[i] = "{"
    /\ text[i + 1] \in DOMAIN Members
    /\ text[i + 2] = "}"

\* C21: parse_call_outcome never raises, and whenever the model call fails
\* or its output cannot be parsed into an outcome it returns the fixed
\* fallback record (payment_status other, the booleans false, the dates
\* and dispute_reason absent, language unknown, sentiment neutral,
\* call_outcome unsuccessful), which is what the end-of-call-report of a
\* stored CallLog then persists.
C21_ParseFailureGivesFallback ==
  \A reply \in ModelReplies :
    (reply.raises \/ ~HoldsOutcomeObject(reply.text))
      => \A m \in EndOfCallReports : \A k \in RowsOf(m.call_id) :
           LET o == parse_call_outcome(reply)
               row == Handled([m EXCEPT !.outcome = o]).call_logs[k]
           IN /\ o = FallbackOutcome
              /\ \A f \in DOMAIN ClassifierFields(FallbackOutcome) :
                   row[f] = ClassifierFields(FallbackOutcome)[f]

\* C22: through every dispatch and every webhook event a CallLog keeps
\* the provider call id it was created with, no CallLog is removed, and
\* no two CallLogs hold the same provider call id.
C22_CallIdImmutableAndUnique ==
  [][/\ Len(call_logs') >= Len(call_logs)
     /\ \A k \in 1..Len(call_logs) :
          call_logs'[k].vapi_call_id = call_logs[k].vapi_call_id
     /\ \A i, j \in 1..Len(call_logs') :
          i # j => call_logs'[i].vapi_call_id # call_logs'[j].vapi_call_id]_vars

\* two calls were placed and logged, and the report of the first was
\* processed: the rows still hold the two call ids in the order given
C22_Witness ==
  /\ Len(call_logs) = 2
  /\ call_logs[1].vapi_call_id = 1
  /\ call_logs[2].vapi_call_id = 2
  /\ call_logs[1].call_status = COMPLETED
  /\ call_logs[1].transcript # None
  /\ delivered > 0

C24_ClientsAndInvoicesUnique ==
  /\ \A i, j \in 1..Len(clients) :
       i # j => clients[i].contact_number # clients[j].contact_number
  /\ \A i, j \in 1..Len(invoices) :
       i # j => invoices[i].invoice_id # invoices[j].invoice_id

\* two passes found the same invoice missing; one has committed its row,
\* the other is about to insert the same invoice id
C24_Witness ==
  \E s \in Sessions :
    /\ syncs[s].pc = "flush_invoice"
    /\ FindInvoice(invoices, Head(syncs[s].todo).invoice_id) # 0
    /\ Head(syncs[s].todo).due_date # None

\* _handle_end_of_call with a commit that may be refused: the write-back
\* to the sheet is made inside the with block, db.commit() runs when the
\* block is left; a refused commit rolls the session back and the handler
\* logs the exception
end_of_call_session(logs, invs, cls, sh, m, commits) ==
  LET r == handle_end_of_call(logs, invs, cls, sh, m)
  IN IF commits THEN r
     ELSE [call_logs |-> logs, invoices |-> invs, sheet |-> r.sheet]

\* C25: in end-of-call processing the sheet row is written only after the
\* CallLog and Invoice update of the event has been committed: an event
\* whose commit fails leaves the sheet as it was.
C25_SheetWrittenAfterCommit ==
  \A m \in EndOfCallReports : \A k \in RowsOf(m.call_id) :
    LET r == end_of_call_session(call_logs, invoices, clients, sheet, m,
                                 FALSE)
    IN /\ r.call_logs = call_logs
       /\ r.invoices = invoices
       /\ r.sheet = sheet

\* the placement attempts of the invocation so far
Attempts == IF ppp.active THEN Len(ppp.calls) ELSE ppp.attempted

\* C26: in one batch run every fetched row gets exactly one placement
\* attempt: the attempts follow the rows one for one, an attempt that
\* fails is not repeated and does not end the run, and a run that is over
\* has attempted every row it fetched.
C26_EachFetchedRowOneAttempt ==
  /\ Attempts <= ppp.fetched
  /\ \A i \in 1..Len(ppp.calls) :
       /\ i <= Len(ppp.rows)
       /\ ppp.calls[i].db_invoice_id = ppp.rows[i].db_invoice_id
  /\ ~ppp.active => Attempts = ppp.fetched

\* column O of the row of an invoice, on whichever sheet the row is
CallCount(ext_id) == sheet["sheetA"][ext_id] + sheet["sheetB"][ext_id]

\* the calls of an Invoice whose end-of-call-report has been processed
ReportedCalls(inv) ==
  {call_logs[k].vapi_call_id :
     k \in {j \in 1..Len(call_logs) :
              /\ call_logs[j].invoice_id = inv
              /\ call_logs[j].transcript # None}}

\* C27: after every sequence of dispatches and webhook deliveries, a
\* report delivered twice included, the call-count column of an invoice's
\* row is its initial value plus the number of distinct calls of the
\* invoice whose end-of-call-report has been processed.
C27_CallCountIsDistinctReportedCalls ==
  \A inv \in 1..Len(invoices) :
    CallCount(invoices[inv].invoice_id) = Cardinality(ReportedCalls(inv))

\* C28: a batch run places no call for an Invoice that is stored as paid,
\* even when the sheet still lists the row with a pending amount.
C28_NoBatchCallForPaidInvoice ==
  [][\A f \in inflight' \ inflight :
       f.path = "batch" => invoices[f.db_invoice_id].payment_status # PAID]_vars

\* C29: every CallLog a dispatch created reaches completed once the
\* end-of-call-report of its call id has been delivered, whenever that
\* was, before the CallLog was committed included: with no commit under
\* way, a CallLog whose report was delivered is completed.
C29_ReportedCallLogCompleted ==
  inflight = {}
    => \A k \in 1..Len(call_logs) :
         call_logs[k].vapi_call_id \in reported
           => call_logs[k].call_status = COMPLETED

\* C30: an Invoice that is paid stays paid: no step (a sync of a sheet
\* that lists it again, a further call, a status-update, a later report
\* classified otherwise) moves it from paid or removes it.
C30_PaidStaysPaid ==
  [][\A i \in 1..Len(invoices) :
       invoices[i].payment_status = PAID
         => /\ i <= Len(invoices')
            /\ invoices'[i].invoice_id = invoices[i].invoice_id
            /\ invoices'[i].payment_status = PAID]_vars

\* a paid Invoice with two calls: one whose report was classified paid,
\* and a later one whose report, classified otherwise, was applied
C30_Witness ==
  \E k1, k2 \in 1..Len(call_logs) :
    /\ k1 < k2
    /\ call_logs[k1].invoice_id = call_logs[k2].invoice_id
    /\ invoices[call_logs[k1].invoice_id].payment_status = PAID
    /\ call_logs[k1].vapi_call_id \in paid_reports
    /\ call_logs[k2].vapi_call_id \notin paid_reports
    /\ call_logs[k2].transcript # None
    /\ call_logs[k2].call_status = COMPLETED

====
